---- MODULE Spec2Model ----
(***************************************************************************)
(* A model of the binary search tree library of src/bst.h (the complete    *)
(* implementation, lines 422-652).                                         *)
(*                                                                         *)
(* The heap is explicit: a node is an address, `heap` gives the fields of  *)
(* every address, `live` is the set of addresses that were allocated and   *)
(* not yet released.  An element is a fixed-size blob; the model keeps of  *)
(* it the key the ordering function looks at and an identity `id` (the     *)
(* resource the element owns, what the cleanup hook is there to release).  *)
(* The library copies blobs whole (memcpy), so key and id travel together. *)
(*                                                                         *)
(* op, ret and visited describe the last call only: its name and argument, *)
(* the value it returned, the values it passed to the iteration function.  *)
(*                                                                         *)
(* Undefined behaviour is a nondeterministic choice:                       *)
(*  - bst_search_rec returns no value after a recursive call; the value    *)
(*    bst_search then returns is any pointer;                              *)
(*  - an operation that walks into a released node (a dangling link) has   *)
(*    an arbitrary outcome and leaves the program in pc = "undefined";     *)
(*  - so does a write through the NULL a failed malloc returned, and a     *)
(*    memcpy from a NULL element.                                          *)
(***************************************************************************)
EXTENDS Integers, Sequences, FiniteSets, TLC

VARIABLES pc, tree, heap, live, nextAddr, log, op, ret, visited

vars == <<pc, tree, heap, live, nextAddr, log, op, ret, visited>>

(* Bounds of the model *)
MaxNodes == 4
MaxKey == 3

NULL == 0
NoFun == "NULL"

Keys == 1..MaxKey
Addrs == 1..MaxNodes
Ptrs == 0..MaxNodes

(* An element as the caller passes it to bst_search and bst_remove: only   *)
(* the key matters to the ordering function.                               *)
Element(k) == [key |-> k, id |-> 0]

(* The content of storage that holds no element (never allocated, or       *)
(* released: its content is indeterminate and never read by a defined      *)
(* step).                                                                  *)
NoData == [key |-> 0, id |-> 0]
NoNode == [data |-> NoData, left |-> NULL, right |-> NULL]
NoTree == [data_size |-> 0, compare |-> NoFun, free |-> NoFun, root |-> NULL]
NoOp == [name |-> "none", key |-> 0, found |-> FALSE, fault |-> "none"]

(* The ordering function the caller supplies: the natural order of keys.   *)
compare(a, b) == a.key - b.key

(* The memory the operations work on, passed through the recursive helpers *)
Mem == [heap |-> heap, live |-> live, log |-> log]

---------------------------------------------------------------------------
(* bst_create_node: a node at address a holding a copy of element, no      *)
(* children.                                                               *)
bst_create_node(h, a, element) ==
    [h EXCEPT ![a] = [data |-> element, left |-> NULL, right |-> NULL]]

RECURSIVE bst_add_rec_eq_right(_, _, _)
(* bst_add_rec with the equal case routed to the right (compare > 0).      *)
bst_add_rec_eq_right(h, current, new) ==
    IF compare(h[current].data, h[new].data) > 0
    THEN IF h[current].left = NULL
         THEN [h EXCEPT ![current].left = new]
         ELSE bst_add_rec_eq_right(h, h[current].left, new)
    ELSE IF h[current].right = NULL
         THEN [h EXCEPT ![current].right = new]
         ELSE bst_add_rec_eq_right(h, h[current].right, new)

RECURSIVE bst_add_rec(_, _, _)
bst_add_rec(h, current, new) ==
    IF compare(h[current].data, h[new].data) >= 0
    THEN IF h[current].left = NULL
         THEN [h EXCEPT ![current].left = new]
         ELSE bst_add_rec(h, h[current].left, new)
    ELSE IF h[current].right = NULL
         THEN [h EXCEPT ![current].right = new]
         ELSE bst_add_rec(h, h[current].right, new)

RECURSIVE bst_size_rec(_, _)
bst_size_rec(h, current) ==
    IF current = NULL
    THEN 0
    ELSE 1 + bst_size_rec(h, h[current].left) + bst_size_rec(h, h[current].right)

(* bst_search_rec returns a value only on its two return statements; after *)
(* a recursive call it reaches its closing brace.  def says whether a      *)
(* value was returned, node is the returned value (or what the inner call  *)
(* produced).                                                              *)
RECURSIVE bst_search_rec(_, _, _)
bst_search_rec(h, current, element) ==
    IF current = NULL
    THEN [def |-> TRUE, node |-> NULL]
    ELSE IF compare(h[current].data, element) > 0
    THEN [def |-> FALSE, node |-> bst_search_rec(h, h[current].left, element).node]
    ELSE IF compare(h[current].data, element) < 0
    THEN [def |-> FALSE, node |-> bst_search_rec(h, h[current].right, element).node]
    ELSE [def |-> TRUE, node |-> current]

(* The values the iteration function is called with, in call order.        *)
RECURSIVE bst_iter_rec(_, _)
bst_iter_rec(h, current) ==
    IF current = NULL
    THEN << >>
    ELSE bst_iter_rec(h, h[current].left) \o <<h[current].data>>
             \o bst_iter_rec(h, h[current].right)

(* find_max that stops at the node it is given.                            *)
find_max_no_descent(h, current) == current

RECURSIVE find_max(_, _)
find_max(h, current) ==
    IF h[current].right = NULL
    THEN current
    ELSE find_max(h, h[current].right)

(* bst_destroy_node: the cleanup hook on the node's data when there is     *)
(* one, then the data storage and the node are released.                   *)
bst_destroy_node(t, m, node) ==
    [heap |-> [m.heap EXCEPT ![node] = NoNode],
     live |-> m.live \ {node},
     log  |-> m.log
              \o (IF t.free # NoFun
                  THEN <<[ev |-> "cleanup", addr |-> node, val |-> m.heap[node].data]>>
                  ELSE << >>)
              \o <<[ev |-> "free_data", addr |-> node, val |-> NoData],
                   [ev |-> "free_node", addr |-> node, val |-> NoData]>>]

RECURSIVE bst_destroy_rec(_, _, _)
bst_destroy_rec(t, m, current) ==
    LET m1 == IF m.heap[current].left # NULL
              THEN bst_destroy_rec(t, m, m.heap[current].left)
              ELSE m
        m2 == IF m.heap[current].right # NULL
              THEN bst_destroy_rec(t, m1, m.heap[current].right)
              ELSE m1
    IN  bst_destroy_node(t, m2, current)

(* bst_remove_rec returns the node that takes the place of current, and    *)
(* the memory as it leaves it.                                             *)
RECURSIVE bst_remove_rec(_, _, _, _)
bst_remove_rec(t, m, current, element) ==
    IF current = NULL
    THEN [ret |-> NULL, m |-> m]
    ELSE IF compare(m.heap[current].data, element) > 0
    THEN LET r == bst_remove_rec(t, m, m.heap[current].left, element)
         IN  [ret |-> current,
              m |-> [r.m EXCEPT !.heap[current].left = r.ret]]
    ELSE IF compare(m.heap[current].data, element) < 0
    THEN LET r == bst_remove_rec(t, m, m.heap[current].right, element)
         IN  [ret |-> current,
              m |-> [r.m EXCEPT !.heap[current].right = r.ret]]
    ELSE IF m.heap[current].left = NULL /\ m.heap[current].right = NULL
    THEN [ret |-> NULL, m |-> bst_destroy_node(t, m, current)]
    ELSE IF m.heap[current].right = NULL
    THEN [ret |-> m.heap[current].left, m |-> bst_destroy_node(t, m, current)]
    ELSE IF m.heap[current].left = NULL
    THEN [ret |-> m.heap[current].right, m |-> bst_destroy_node(t, m, current)]
    ELSE LET successor == find_max(m.heap, m.heap[current].left)
             m1 == [m EXCEPT !.heap[current].data = m.heap[successor].data]
             r  == bst_remove_rec(t, m1, m1.heap[current].left,
                                  m1.heap[successor].data)
         IN  [ret |-> current,
              m |-> [r.m EXCEPT !.heap[current].left = r.ret]]

---------------------------------------------------------------------------
(* The addresses a walk from current can reach.  A released node is        *)
(* reached but not walked through: its links are indeterminate.            *)
RECURSIVE Reach(_, _, _)
Reach(h, lv, current) ==
    IF current = NULL
    THEN {}
    ELSE IF current \notin lv
    THEN {current}
    ELSE {current} \cup Reach(h, lv, h[current].left)
                   \cup Reach(h, lv, h[current].right)

Nodes == Reach(heap, live, tree.root)

(* Some link the operations follow refers to released storage.             *)
Dangling == Nodes \ live # {}

(* Some node of the tree compares equal to the key.                        *)
Present(k) == \E a \in Nodes \cap live : compare(heap[a].data, Element(k)) = 0

(* What an int or a pointer read from indeterminate storage can be.        *)
IndetInts == (0 - 1)..(MaxNodes + 1)

(* The value bst_size can return in the current state.                     *)
bst_size_outcomes ==
    IF tree.root = NULL THEN {0}
    ELSE IF Dangling THEN IndetInts
    ELSE {bst_size_rec(heap, tree.root)}

(* The pointer bst_search can return in the current state.                 *)
bst_search_outcomes(k) ==
    IF tree.root = NULL THEN {NULL}
    ELSE IF Dangling THEN Ptrs
    ELSE LET r == bst_search_rec(heap, tree.root, Element(k))
         IN  IF r.def THEN {r.node} ELSE Ptrs

(* The sequence of values bst_iter can pass to the iteration function.     *)
bst_iter_outcomes ==
    IF tree.root = NULL THEN {<< >>}
    ELSE IF Dangling THEN {<< >>, <<NoData>>}
    ELSE {bst_iter_rec(heap, tree.root)}

---------------------------------------------------------------------------
Init ==
    /\ pc = "start"
    /\ tree = NoTree
    /\ heap = [a \in Addrs |-> NoNode]
    /\ live = {}
    /\ nextAddr = 1
    /\ log = << >>
    /\ op = NoOp
    /\ ret = NULL
    /\ visited = << >>

(* A failed malloc is reported with perror and nothing else: the function  *)
(* goes on.                                                                *)
perror(l) == l \o <<[ev |-> "perror", addr |-> NULL, val |-> NoData]>>

(* bst_new without the assert on the ordering function.                    *)
bst_new_no_compare_assert(data_size, cmp, free_fun, alloc) ==
    /\ pc = "start"
    /\ IF data_size > 0
       THEN IF alloc
            THEN /\ pc' = "run"
                 /\ tree' = [data_size |-> data_size, compare |-> cmp,
                             free |-> free_fun, root |-> NULL]
                 /\ log' = log
            ELSE /\ pc' = "undefined"
                 /\ tree' = tree
                 /\ log' = perror(log)
       ELSE /\ pc' = "aborted"
            /\ UNCHANGED <<tree, log>>
    /\ op' = [name |-> "new", key |-> 0, found |-> FALSE,
              fault |-> IF data_size > 0 /\ ~alloc THEN "nomem" ELSE "none"]
    /\ ret' = NULL
    /\ visited' = << >>
    /\ UNCHANGED <<heap, live, nextAddr>>

(* bst_new: the two asserts, the malloc (alloc: whether it succeeds), then *)
(* the tree's fields, written through the pointer malloc returned.         *)
bst_new(data_size, cmp, free_fun, alloc) ==
    /\ pc = "start"
    /\ IF data_size > 0 /\ cmp # NoFun
       THEN IF alloc
            THEN /\ pc' = "run"
                 /\ tree' = [data_size |-> data_size, compare |-> cmp,
                             free |-> free_fun, root |-> NULL]
                 /\ log' = log
            ELSE /\ pc' = "undefined"
                 /\ tree' = tree
                 /\ log' = perror(log)
       ELSE /\ pc' = "aborted"
            /\ UNCHANGED <<tree, log>>
    /\ op' = [name |-> "new", key |-> 0, found |-> FALSE,
              fault |-> IF data_size > 0 /\ cmp # NoFun /\ ~alloc
                        THEN "nomem" ELSE "none"]
    /\ ret' = NULL
    /\ visited' = << >>
    /\ UNCHANGED <<heap, live, nextAddr>>

(* bst_add of an element with key k (k = NULL: the element pointer is      *)
(* NULL); the element owns resource nextAddr.  alloc tells which malloc of *)
(* bst_create_node fails, if any.  bst_create_node reports a failed malloc *)
(* and goes on to write through the pointer; it copies from element        *)
(* without a test.                                                         *)
bst_add(k, alloc) ==
    /\ pc = "run"
    /\ nextAddr <= MaxNodes
    /\ IF alloc = "no_node"
       THEN /\ pc' = "undefined"
            /\ log' = perror(log)
            /\ UNCHANGED <<tree, heap, live, nextAddr>>
       ELSE IF alloc = "no_data" \/ k = NULL
       THEN /\ pc' = "undefined"
            /\ log' = IF alloc = "no_data" THEN perror(log) ELSE log
            /\ nextAddr' = nextAddr + 1
            /\ live' = live \cup {nextAddr}
            /\ UNCHANGED <<tree, heap>>
       ELSE LET node == nextAddr
                h == bst_create_node(heap, node, [key |-> k, id |-> nextAddr])
            IN  /\ nextAddr' = nextAddr + 1
                /\ live' = live \cup {node}
                /\ log' = log
                /\ IF tree.root = NULL
                   THEN /\ tree' = [tree EXCEPT !.root = node]
                        /\ heap' = h
                        /\ pc' = pc
                   ELSE IF Dangling
                   THEN /\ pc' = "undefined"
                        /\ heap' = h
                        /\ tree' = tree
                   ELSE /\ heap' = bst_add_rec(h, tree.root, node)
                        /\ tree' = tree
                        /\ pc' = pc
    /\ op' = [name |-> "add", key |-> k, found |-> k # NULL /\ Present(k),
              fault |-> IF alloc # "ok" THEN "nomem"
                        ELSE IF k = NULL THEN "null" ELSE "none"]
    /\ ret' = NULL
    /\ visited' = << >>

bst_size ==
    /\ pc = "run"
    /\ ret' \in bst_size_outcomes
    /\ pc' = IF Dangling THEN "undefined" ELSE pc
    /\ op' = [name |-> "size", key |-> 0, found |-> FALSE, fault |-> "none"]
    /\ visited' = << >>
    /\ UNCHANGED <<tree, heap, live, nextAddr, log>>

bst_search(k) ==
    /\ pc = "run"
    /\ ret' \in bst_search_outcomes(k)
    /\ pc' = IF Dangling THEN "undefined" ELSE pc
    /\ op' = [name |-> "search", key |-> k, found |-> Present(k), fault |-> "none"]
    /\ visited' = << >>
    /\ UNCHANGED <<tree, heap, live, nextAddr, log>>

(* A traversal that releases the data of each node once it has passed it   *)
(* to the iteration function.                                              *)
bst_iter_releasing ==
    /\ pc = "run"
    /\ visited' \in bst_iter_outcomes
    /\ pc' = IF Dangling THEN "undefined" ELSE pc
    /\ op' = [name |-> "iter", key |-> 0, found |-> FALSE, fault |-> "none"]
    /\ ret' = NULL
    /\ heap' = [a \in Addrs |-> IF a \in Nodes \cap live
                                THEN [heap[a] EXCEPT !.data = NoData]
                                ELSE heap[a]]
    /\ UNCHANGED <<tree, live, nextAddr, log>>

bst_iter ==
    /\ pc = "run"
    /\ visited' \in bst_iter_outcomes
    /\ pc' = IF Dangling THEN "undefined" ELSE pc
    /\ op' = [name |-> "iter", key |-> 0, found |-> FALSE, fault |-> "none"]
    /\ ret' = NULL
    /\ UNCHANGED <<tree, heap, live, nextAddr, log>>

(* bst_remove: the walk starts at the root and its result is dropped, the  *)
(* root field is never written.  On a dangling root the walk reads         *)
(* released storage: it may find no match, or match and release the node   *)
(* once more.                                                              *)
bst_remove(k) ==
    /\ pc = "run"
    /\ IF tree.root = NULL
       THEN UNCHANGED <<pc, heap, live, log>>
       ELSE IF Dangling
       THEN /\ pc' = "undefined"
            /\ \E again \in BOOLEAN :
                 log' = IF again
                        THEN bst_destroy_node(tree, Mem, tree.root).log
                        ELSE log
            /\ UNCHANGED <<heap, live>>
       ELSE LET r == bst_remove_rec(tree, Mem, tree.root, Element(k))
            IN  /\ heap' = r.m.heap
                /\ live' = r.m.live
                /\ log' = r.m.log
                /\ pc' = pc
    /\ op' = [name |-> "remove", key |-> k, found |-> Present(k), fault |-> "none"]
    /\ ret' = NULL
    /\ visited' = << >>
    /\ UNCHANGED <<tree, nextAddr>>

(* bst_destroy: every node in post-order, then the tree itself.            *)
bst_destroy ==
    /\ pc = "run"
    /\ IF tree.root # NULL /\ Dangling
       THEN /\ pc' = "undefined"
            /\ UNCHANGED <<heap, live, log>>
       ELSE LET m == IF tree.root # NULL
                     THEN bst_destroy_rec(tree, Mem, tree.root)
                     ELSE Mem
            IN  /\ heap' = m.heap
                /\ live' = m.live
                /\ log' = m.log \o <<[ev |-> "free_tree", addr |-> NULL, val |-> NoData]>>
                /\ pc' = "destroyed"
    /\ op' = [name |-> "destroy", key |-> 0, found |-> FALSE, fault |-> "none"]
    /\ ret' = NULL
    /\ visited' = << >>
    /\ UNCHANGED <<tree, nextAddr>>

New == \E ds \in {0, 1}, c \in {NoFun, "compare"}, f \in {NoFun, "free_fun"} :
          \E alloc \in BOOLEAN : bst_new(ds, c, f, alloc)
Add == \E k \in Keys \cup {NULL} :
          \E alloc \in {"ok", "no_node", "no_data"} : bst_add(k, alloc)
Size == bst_size
Search == \E k \in Keys : bst_search(k)
Iter == bst_iter
Remove == \E k \in Keys : bst_remove(k)
Destroy == bst_destroy

Next == New \/ Add \/ Size \/ Search \/ Iter \/ Remove \/ Destroy

Spec == Init /\ [][Next]_vars

(* The library used without bst_remove: insertions and reads only.         *)
NextAdd == New \/ Add \/ Size \/ Search \/ Iter

SpecAdd == Init /\ [][NextAdd]_vars

(* The calls that change the tree, without the reads.                      *)
NextMut == New \/ Add \/ Remove \/ Destroy

SpecMut == Init /\ [][NextMut]_vars

---------------------------------------------------------------------------
(* The ordering invariant of the tree below current: every node is live    *)
(* (a released node has no value to compare), no key of its left subtree   *)
(* is greater than its own, every key of its right subtree is greater.     *)
BSTOrdered(h, lv, current) ==
    \A n \in Reach(h, lv, current) :
        /\ n \in lv
        /\ \A e \in Reach(h, lv, h[n].left) :
               e \in lv /\ compare(h[n].data, h[e].data) >= 0
        /\ \A e \in Reach(h, lv, h[n].right) :
               e \in lv /\ compare(h[n].data, h[e].data) < 0

BSTInvariant == BSTOrdered(heap, live, tree.root)

(* The indices of the log where the cleanup hook was called.               *)
Cleanups == {i \in 1..Len(log) : log[i].ev = "cleanup"}

(* s is non-decreasing under the ordering function.                        *)
NonDecreasing(s) ==
    \A i \in 1..Len(s) : \A j \in 1..Len(s) :
        i < j => compare(s[i], s[j]) <= 0

(* r is a node of the tree whose value compares equal to key k.            *)
IsMatch(h, lv, r, k) ==
    r # NULL /\ r \in lv /\ compare(h[r].data, Element(k)) = 0

---------------------------------------------------------------------------
C2_RemoveDecrementsSize ==
    [][(op'.name = "remove" /\ op'.found)
         => \A n \in bst_size_outcomes : bst_size_outcomes' = {n - 1}]_vars

(* C3: removing the only element of a single-node tree empties the tree:   *)
(* no root, bst_size returns 0, bst_search returns not-found for any       *)
(* element.                                                                *)
C3_SoleRemovalEmpties ==
    [][(op'.name = "remove" /\ op'.found /\ bst_size_outcomes = {1})
         => /\ tree'.root = NULL
            /\ bst_size_outcomes' = {0}
            /\ \A k \in Keys : bst_search_outcomes(k)' = {NULL}]_vars

(* C4: after any sequence of insertions, bst_search(e) returns a node      *)
(* whose value compares equal to e when e was inserted, at any depth, and  *)
(* not-found when no inserted element compares equal to e or the tree is   *)
(* empty.                                                                  *)
C4_SearchFindsInserted ==
    op.name = "search"
      => IF op.found
         THEN IsMatch(heap, live, ret, op.key)
         ELSE ret = NULL

(* C5: with a cleanup hook, across insertions, removals and the final      *)
(* bst_destroy, the hook is called exactly once for each inserted element, *)
(* before the storage of that element is released, and never on the value  *)
(* of an element a node of the tree still holds.                           *)
C5_CleanupOncePerElement ==
    (tree.free # NoFun /\ pc # "undefined")
      => /\ \A i \in Cleanups : \A a \in Nodes \cap live :
                heap[a].data.id # log[i].val.id
         /\ \A i \in Cleanups : \A j \in Cleanups :
                log[i].val.id = log[j].val.id => i = j
         /\ \A i \in Cleanups : \A j \in 1..Len(log) :
                (log[j].ev = "free_data" /\ log[j].addr = log[i].addr) => i < j
         /\ pc = "destroyed"
              => \A e \in 1..(nextAddr - 1) :
                     \E i \in Cleanups : log[i].val.id = e

(* C6: bst_remove preserves the ordering invariant: when it holds before   *)
(* the call it holds for the tree reachable from the root after the call,  *)
(* in every structural case.                                               *)
C6_RemoveKeepsOrder ==
    [][(op'.name = "remove" /\ BSTInvariant) => BSTInvariant']_vars

(* C7: bst_size returns N after N bst_add calls and no removal, and in     *)
(* every reachable state it is non-negative and equals the number of nodes *)
(* reachable from the root.                                                *)
C7_SizeCountsNodes ==
    op.name = "size"
      => /\ ret >= 0
         /\ ret = Cardinality(Nodes \cap live)
         /\ log = << >> => ret = nextAddr - 1

(* C8: bst_iter calls the iteration function exactly once per node,        *)
(* bst_size(tree) times in all, with a non-decreasing sequence of values,  *)
(* and not at all on an empty tree.                                        *)
C8_IterInOrder ==
    op.name = "iter"
      => /\ \A a \in Nodes \cap live :
                Cardinality({i \in 1..Len(visited) : visited[i] = heap[a].data}) = 1
         /\ Len(visited) = Cardinality(Nodes \cap live)
         /\ bst_size_outcomes = {Len(visited)}
         /\ NonDecreasing(visited)

(* C9: bst_remove of an element that matches no node, or on an empty tree, *)
(* is a no-op: shape, values, links and bst_size are unchanged, no node is *)
(* released and the cleanup hook is not called.                            *)
C9_RemoveAbsentIsNoOp ==
    [][(op'.name = "remove" /\ ~op'.found)
         => /\ tree' = tree
            /\ heap' = heap
            /\ live' = live
            /\ log' = log
            /\ bst_size_outcomes' = bst_size_outcomes]_vars

(* C10: round trip.  After bst_add(e), bst_search(e) returns a node whose  *)
(* value compares equal to e; after a following bst_remove(e) it returns   *)
(* not-found when no other element equal to e was held, and a remaining    *)
(* duplicate otherwise.                                                    *)
C10_RoundTrip ==
    [][\A k \in Keys :
         /\ (op'.name = "add" /\ op'.key = k)
              => \A r \in bst_search_outcomes(k)' : IsMatch(heap', live', r, k)
         /\ (op.name = "add" /\ op.key = k /\ op'.name = "remove" /\ op'.key = k)
              => \A r \in bst_search_outcomes(k)' :
                     IF op.found THEN IsMatch(heap', live', r, k) ELSE r = NULL]_vars

---------------------------------------------------------------------------
(* The number of links from current down to node a of its subtree.         *)
RECURSIVE Depth(_, _, _, _)
Depth(h, lv, current, a) ==
    IF current = a
    THEN 0
    ELSE IF a \in Reach(h, lv, h[current].left)
    THEN 1 + Depth(h, lv, h[current].left, a)
    ELSE 1 + Depth(h, lv, h[current].right, a)

(* The nodes of the tree that compare equal to key k, and the one of least *)
(* depth among them.                                                       *)
Matches(k) == {a \in Nodes \cap live : compare(heap[a].data, Element(k)) = 0}

Shallowest(k) ==
    CHOOSE a \in Matches(k) :
        \A b \in Matches(k) :
            Depth(heap, live, tree.root, a) <= Depth(heap, live, tree.root, b)

(* The elements (by identity) the nodes of the tree hold.                  *)
Ids == {heap[a].data.id : a \in Nodes \cap live}

(* C11: when several nodes compare equal to the element, bst_remove takes  *)
(* exactly one occurrence out of the tree, the match of least depth; the   *)
(* deeper duplicates remain in the tree.                                   *)
C11_RemovesShallowestOnly ==
    [][\A k \in Keys :
         (op'.name = "remove" /\ op'.key = k /\ Cardinality(Matches(k)) >= 2)
           => /\ ~Dangling'
              /\ Cardinality(Matches(k)') = Cardinality(Matches(k)) - 1
              /\ Ids' = Ids \ {heap[Shallowest(k)].data.id}]_vars

(* C12: when the storage of a new tree, a new node or a node's copied      *)
(* element cannot be allocated, the failure is reported and the process    *)
(* terminates: no later step of bst_new or bst_add runs on the missing     *)
(* storage.                                                                *)
C12_AllocFailureIsFatal ==
    op.fault = "nomem"
      => /\ Len(log) > 0
         /\ log[Len(log)].ev = "perror"
         /\ pc = "exited"

(* C13: bst_add with a NULL element aborts at a precondition check, before *)
(* any node is allocated, copied into or linked into the tree.             *)
C13_NullElementAborts ==
    [][(op'.name = "add" /\ op'.fault = "null")
         => /\ pc' = "aborted"
            /\ nextAddr' = nextAddr
            /\ live' = live
            /\ heap' = heap
            /\ tree' = tree]_vars

(* C14: bst_new aborts when data_size is 0 or the ordering function is     *)
(* absent; otherwise, with or without a cleanup hook, it returns an empty  *)
(* tree (no root) whose element size, ordering function and cleanup hook   *)
(* are the ones given, and no later operation changes them.  (The storage  *)
(* of the tree is taken to be allocated; steps of undefined behaviour      *)
(* promise nothing.)                                                       *)
C14_NewChecksAndFixesFields ==
    [][/\ \A ds \in {0, 1} : \A c \in {NoFun, "compare"} :
          \A f \in {NoFun, "free_fun"} :
            bst_new(ds, c, f, TRUE)
              => IF ds = 0 \/ c = NoFun
                 THEN pc' = "aborted" /\ tree' = NoTree
                 ELSE /\ pc' = "run"
                      /\ tree' = [data_size |-> ds, compare |-> c,
                                  free |-> f, root |-> NULL]
       /\ (pc = "run" /\ pc' # "undefined")
            => /\ tree'.data_size = tree.data_size
               /\ tree'.compare = tree.compare
               /\ tree'.free = tree.free]_vars

(* bst_new has refused a configuration.                                    *)
C14_Witness == op.name = "new" /\ pc = "aborted"

---------------------------------------------------------------------------
(* The right-most node of the subtree at sub: it has no right child and is *)
(* in the left subtree of no node of sub.                                  *)
RightMost(h, lv, sub) ==
    CHOOSE p \in Reach(h, lv, sub) :
        /\ h[p].right = NULL
        /\ \A a \in Reach(h, lv, sub) : p \notin Reach(h, lv, h[a].left)

KeysOf(s) == [i \in 1..Len(s) |-> s[i].key]

(* The sequence of keys ks without the first occurrence of k.              *)
RemoveOne(ks, k) ==
    LET i == CHOOSE i \in 1..Len(ks) :
                 ks[i] = k /\ \A j \in 1..(i - 1) : ks[j] # k
    IN  SubSeq(ks, 1, i - 1) \o SubSeq(ks, i + 1, Len(ks))

(* The values of the tree in order, left subtree first.                    *)
InOrder == bst_iter_rec(heap, tree.root)

(* The scenario of the specification: these keys inserted in this order    *)
(* into an empty tree (node n holds the n-th key), then 5 removed.         *)
Script == <<5, 3, 8, 1, 4, 7, 9>>

RECURSIVE ScriptHeap(_)
ScriptHeap(n) ==
    IF n = 0
    THEN [a \in 1..Len(Script) |-> NoNode]
    ELSE LET h == bst_create_node(ScriptHeap(n - 1), n, [key |-> Script[n], id |-> n])
         IN  IF n = 1 THEN h ELSE bst_add_rec(h, 1, n)

ScriptRemoved ==
    bst_remove_rec([NoTree EXCEPT !.root = 1],
                   [heap |-> ScriptHeap(Len(Script)), live |-> 1..Len(Script),
                    log |-> << >>],
                   1, Element(5))

ScriptResult ==
    /\ bst_size_rec(ScriptHeap(Len(Script)), 1) = 7
    /\ KeysOf(bst_iter_rec(ScriptHeap(Len(Script)), 1)) = <<1, 3, 4, 5, 7, 8, 9>>
    /\ ScriptRemoved.ret = 1
    /\ ScriptRemoved.m.heap[1].data.key = 4
    /\ KeysOf(bst_iter_rec(ScriptRemoved.m.heap, 1)) = <<1, 3, 4, 7, 8, 9>>
    /\ bst_size_rec(ScriptRemoved.m.heap, 1) = 6

(* C15: removing a node with two children replaces its value with a copy   *)
(* of the maximum value of its left subtree (the right-most node reached   *)
(* from its left child) and removes exactly that node; the matched node    *)
(* keeps its position, everything outside its left subtree is unchanged,   *)
(* and the in-order sequence is the previous one minus one occurrence of   *)
(* the removed value.  Inserting 5,3,8,1,4,7,9 and removing 5 gives        *)
(* 1,3,4,7,8,9 in order with 4 at the root.                                *)
C15_TwoChildrenRemoval ==
    [][/\ ScriptResult
       /\ \A k \in Keys :
            (/\ op'.name = "remove" /\ op'.key = k
             /\ Matches(k) # {}
             /\ heap[Shallowest(k)].left # NULL
             /\ heap[Shallowest(k)].right # NULL)
              => LET s == Shallowest(k)
                     l == heap[s].left
                     p == RightMost(heap, live, l)
                 IN  /\ \A b \in Reach(heap, live, l) :
                            compare(heap[b].data, heap[p].data) <= 0
                     /\ heap'[s].data = heap[p].data
                     /\ live' = live \ {p}
                     /\ tree'.root = tree.root
                     /\ heap'[s].right = heap[s].right
                     /\ \A a \in (Nodes \ Reach(heap, live, l)) \ {s} :
                            heap'[a] = heap[a]
                     /\ Nodes' = Nodes \ {p}
                     /\ KeysOf(InOrder') = RemoveOne(KeysOf(InOrder), k)]_vars

(* After a removal, a node holds the value copied from its predecessor and *)
(* still has two children.                                                 *)
C15_Witness ==
    /\ op.name = "remove" /\ op.found
    /\ pc = "run"
    /\ ~Dangling
    /\ Cardinality(live) = MaxNodes - 1
    /\ \E a \in Nodes : heap[a].left # NULL /\ heap[a].right # NULL
                        /\ heap[a].data.id # a

(* The only child of node a (NULL when it has none or two).                *)
OnlyChild(a) ==
    IF heap[a].left # NULL /\ heap[a].right = NULL THEN heap[a].left
    ELSE IF heap[a].left = NULL /\ heap[a].right # NULL THEN heap[a].right
    ELSE NULL

(* C16: removing a node with exactly one child splices: the removed node's *)
(* former position (its parent's link, or the tree's root when it is the   *)
(* root) then holds that child, and the child's subtree is unchanged.      *)
C16_OneChildSplice ==
    [][\A k \in Keys :
         (/\ op'.name = "remove" /\ op'.key = k
          /\ Matches(k) # {}
          /\ OnlyChild(Shallowest(k)) # NULL)
           => LET s == Shallowest(k)
                  c == OnlyChild(s)
              IN  /\ s = tree.root => tree'.root = c
                  /\ \A a \in Nodes \ {s} :
                       /\ heap[a].left = s => heap'[a].left = c
                       /\ heap[a].right = s => heap'[a].right = c
                  /\ \A a \in Reach(heap, live, c) :
                       a \in live' /\ heap'[a] = heap[a]]_vars

(* C17: bst_add (of a non-NULL element, its storage allocated) adds        *)
(* exactly one node, a leaf holding a copy of the element, and changes     *)
(* nothing else: every pre-existing node keeps its value and both links,   *)
(* except the single node (or the root slot of an empty tree) whose absent *)
(* link now refers to the new node.                                        *)
C17_AddOneLeaf ==
    [][(op'.name = "add" /\ op'.fault = "none")
         => LET n == nextAddr
            IN  /\ n \notin Nodes
                /\ Nodes' = Nodes \cup {n}
                /\ live' = live \cup {n}
                /\ heap'[n] = [data |-> [key |-> op'.key, id |-> n],
                               left |-> NULL, right |-> NULL]
                /\ log' = log
                /\ IF tree.root = NULL
                   THEN /\ tree' = [tree EXCEPT !.root = n]
                        /\ \A a \in Addrs \ {n} : heap'[a] = heap[a]
                   ELSE /\ tree' = tree
                        /\ \E a \in Nodes :
                             /\ \/ /\ heap[a].left = NULL
                                   /\ heap'[a] = [heap[a] EXCEPT !.left = n]
                                \/ /\ heap[a].right = NULL
                                   /\ heap'[a] = [heap[a] EXCEPT !.right = n]
                             /\ \A b \in Addrs \ {a, n} : heap'[b] = heap[b]]_vars

Events(old, new, ev, a) ==
    {i \in (Len(old) + 1)..Len(new) : new[i].ev = ev /\ new[i].addr = a}

(* C19: bst_destroy releases every node of the tree exactly once and in    *)
(* post-order (both children of a node are released before the node); for  *)
(* each node the cleanup hook, when present, runs on the element first,    *)
(* then the element storage is released, then the node; the tree's own     *)
(* storage is released last, after all nodes.                              *)
C19_DestroyPostOrder ==
    [][op'.name = "destroy"
         => /\ pc' = "destroyed"
            /\ live' = {}
            /\ Len(log') > Len(log)
            /\ log'[Len(log')].ev = "free_tree"
            /\ Events(log, log', "free_tree", NULL) = {Len(log')}
            /\ \A i \in (Len(log) + 1)..(Len(log') - 1) : log'[i].addr \in Nodes
            /\ \A a \in Nodes :
                 LET c == Events(log, log', "cleanup", a)
                     d == Events(log, log', "free_data", a)
                     f == Events(log, log', "free_node", a)
                 IN  /\ a \in live
                     /\ Cardinality(d) = 1 /\ Cardinality(f) = 1
                     /\ Cardinality(c) = IF tree.free # NoFun THEN 1 ELSE 0
                     /\ \A i \in c : log'[i].val = heap[a].data
                     /\ \A i \in c : \A j \in d : i < j
                     /\ \A i \in d : \A j \in f : i < j
                     /\ \A b \in {heap[a].left, heap[a].right} \ {NULL} :
                            \A i \in Events(log, log', "free_node", b) :
                                \A j \in c \cup d : i < j]_vars

(* C20: bst_search, bst_iter and bst_size are pure reads: each leaves the  *)
(* root, every node's value and links, and the tree's element size,        *)
(* ordering function and cleanup hook unchanged, and releases no storage.  *)
C20_ReadsArePure ==
    [][op'.name \in {"search", "iter", "size"}
         => /\ tree' = tree
            /\ \A a \in Addrs : heap'[a] = heap[a]
            /\ live' = live
            /\ log' = log]_vars

(* A traversal has visited a tree of three nodes or more, one of them      *)
(* with two children, and the tree is the one the traversal saw.           *)
C20_Witness ==
    /\ op.name = "iter"
    /\ pc = "run"
    /\ Len(visited) >= 3
    /\ visited = InOrder
    /\ \E a \in Nodes : heap[a].left # NULL /\ heap[a].right # NULL

(* C21: no dangling links: after any sequence of bst_add and bst_remove    *)
(* calls the tree's root and every left/right link of a reachable node is  *)
(* either absent or refers to a node that has not been released, also      *)
(* after a removal whose matched node is the root with zero or one child.  *)
C21_NoDanglingLinks ==
    pc = "run"
      => /\ tree.root \in live \cup {NULL}
         /\ \A a \in Nodes \cap live :
                /\ heap[a].left \in live \cup {NULL}
                /\ heap[a].right \in live \cup {NULL}

(* The number of nodes reachable from the root that hold the key (a        *)
(* released node holds no value): the multiset of the tree's values.       *)
Count(k) == Cardinality({a \in Nodes \cap live : heap[a].data.key = k})

(* C22: the tree refines a multiset: across any interleaved sequence of    *)
(* bst_add and bst_remove calls, each bst_add adds one occurrence of its   *)
(* element to the multiset of values held by the nodes reachable from the  *)
(* root, each bst_remove of a present element deletes one occurrence of    *)
(* it, and a bst_remove of an absent element changes nothing; a new tree   *)
(* holds nothing.                                                          *)
C22_RefinesMultiset ==
    [][/\ (op'.name = "new" /\ pc' = "run")
            => \A k \in Keys : Count(k)' = 0
       /\ (op'.name = "add" /\ op'.fault = "none")
            => \A k \in Keys :
                   Count(k)' = Count(k) + IF k = op'.key THEN 1 ELSE 0
       /\ op'.name = "remove"
            => \A k \in Keys :
                   Count(k)' = Count(k) - IF k = op'.key /\ op'.found
                                          THEN 1 ELSE 0]_vars

====
